---- MODULE Spec2Model ----
(***************************************************************************)
(* Model of src/app/api/chat/route.ts: the chat request handler (OPTIONS,  *)
(* GET, POST) and the ChatWidget's sendMessage.                            *)
(*                                                                         *)
(* Texts that the code inspects with regular expressions (the provider's   *)
(* reply, the widget's input draft) are sequences of one-character         *)
(* strings.  Error messages and message contents, which the code only      *)
(* passes on or searches for one literal, are sequences of fragments.      *)
(* A JSON value is [t |-> "undef" | "str" | "num", v |-> text].            *)
(***************************************************************************)
EXTENDS Integers, Sequences, FiniteSets, TLC

\* Longest message history a request carries.
MaxMsgs == 14
\* Number of sendMessage calls the widget makes in one behaviour.
MaxSends == 2

\* messages.slice(-12)
WINDOW == 12

VARIABLES
  env,           \* process.env, read when the module is loaded and in POST
  req,           \* the request being handled
  pc,            \* position of the handler
  providerCalls, \* argument lists of client.chat.completions.create
  completion,    \* what the provider answered
  text,          \* the local `text` of POST
  webhookCalls,  \* bodies of fetch(webhook, ...)
  log,           \* console.error of the handler
  resp,          \* the response returned
  messages,      \* widget: useState messages
  input,         \* widget: useState input
  loading,       \* widget: useState loading
  calls,         \* widget: the sendMessage invocations, with their closures
  requests,      \* widget: bodies of fetch(`${API_BASE}/api/chat/`)
  wlog           \* widget: console.error

hvars == <<env, req, pc, providerCalls, completion, text, webhookCalls, log, resp>>
wvars == <<messages, input, loading, calls, requests, wlog>>
vars == <<env, req, pc, providerCalls, completion, text, webhookCalls, log, resp,
          messages, input, loading, calls, requests, wlog>>

----------------------------------------------------------------------------
(* Text helpers *)

Min(S) == CHOOSE x \in S : \A y \in S : x <= y

LowerOf ==
  [c \in {"A","B","C","D","E","F","G","H","I","J","K","L","M",
          "N","O","P","Q","R","S","T","U","V","W","X","Y","Z"} |->
     CASE c = "A" -> "a" [] c = "B" -> "b" [] c = "C" -> "c" [] c = "D" -> "d"
       [] c = "E" -> "e" [] c = "F" -> "f" [] c = "G" -> "g" [] c = "H" -> "h"
       [] c = "I" -> "i" [] c = "J" -> "j" [] c = "K" -> "k" [] c = "L" -> "l"
       [] c = "M" -> "m" [] c = "N" -> "n" [] c = "O" -> "o" [] c = "P" -> "p"
       [] c = "Q" -> "q" [] c = "R" -> "r" [] c = "S" -> "s" [] c = "T" -> "t"
       [] c = "U" -> "u" [] c = "V" -> "v" [] c = "W" -> "w" [] c = "X" -> "x"
       [] c = "Y" -> "y" [] c = "Z" -> "z"]

\* the /i flag: characters are compared after case folding
Lower(c) == IF c \in DOMAIN LowerOf THEN LowerOf[c] ELSE c

LowerSeq(s) == [i \in 1..Len(s) |-> Lower(s[i])]

IsAlpha(c) ==
  Lower(c) \in {"a","b","c","d","e","f","g","h","i","j","k","l","m",
                "n","o","p","q","r","s","t","u","v","w","x","y","z"}

IsDigit(c) == c \in {"0","1","2","3","4","5","6","7","8","9"}

\* [A-Z0-9._%+-] under /i
IsLocalCh(c) == IsAlpha(c) \/ IsDigit(c) \/ c \in {".", "_", "%", "+", "-"}

\* [A-Z0-9.-] under /i
IsDomainCh(c) == IsAlpha(c) \/ IsDigit(c) \/ c \in {".", "-"}

\* \s
IsSpace(c) == c \in {" ", "\n", "\t"}

\* /[A-Z0-9._%+-]+@[A-Z0-9.-]+\.[A-Z]{2,}/i.test(t)
EmailTest(t) ==
  \E i \in 2..Len(t) :
    /\ t[i] = "@"
    /\ IsLocalCh(t[i-1])
    /\ \E j \in (i+2)..(Len(t)-2) :
         /\ t[j] = "."
         /\ \A k \in (i+1)..(j-1) : IsDomainCh(t[k])
         /\ IsAlpha(t[j+1])
         /\ IsAlpha(t[j+2])

\* String.prototype.indexOf, 1-based, 0 when absent
IndexOf(t, pat) ==
  LET at == {i \in 1..(Len(t) - Len(pat) + 1) : SubSeq(t, i, i + Len(pat) - 1) = pat}
  IN IF at = {} THEN 0 ELSE Min(at)

\* String.prototype.replace with a string pattern: the first occurrence only
ReplaceFirst(t, pat, rep) ==
  LET i == IndexOf(t, pat)
  IN IF i = 0 THEN t
     ELSE SubSeq(t, 1, i - 1) \o rep \o SubSeq(t, i + Len(pat), Len(t))

\* String.prototype.includes on a sequence of fragments
Includes(msg, lit) == \E i \in 1..Len(msg) : msg[i] = lit

\* Array.prototype.slice(start) with a negative or non-negative start
Slice(s, start) ==
  LET from == IF start < 0 THEN (IF Len(s) + start < 0 THEN 0 ELSE Len(s) + start)
              ELSE (IF start > Len(s) THEN Len(s) ELSE start)
  IN SubSeq(s, from + 1, Len(s))

----------------------------------------------------------------------------
(* Sample texts *)

HTTPS == <<"h","t","t","p","s",":","/","/">>
CALDOM == <<"c","a","l","e","n","d","l","y",".","c","o","m">>
CALURL == HTTPS \o CALDOM \o <<"/","m">>
PLACEHOLDER == <<"[","#","]">>

TxtPlain == <<"h","i">>
TxtEmail == <<"m","a","i","l"," ","a","@","b",".","c","o">>
TxtPlaceholder == <<"s","e","e"," ">> \o PLACEHOLDER
TxtBare == <<"g","o"," ">> \o CALURL \o <<" ","o","k">>
TxtMarkdown == <<"[","c","a","l","l","]","(">> \o CALURL \o <<")"," ","o","k">>
TxtUpper == <<"H","T","T","P","S",":","/","/","C","A","L","E","N","D","L","Y",
              ".","C","O","M","/","M">>
TxtHalfEmail == <<"a","@","b",".">> \o PLACEHOLDER

ReplyTexts ==
  {<<>>, TxtPlain, TxtEmail, TxtPlaceholder, TxtBare, TxtMarkdown, TxtUpper,
   TxtHalfEmail}

----------------------------------------------------------------------------
(* Request handler: configuration and requests *)

JUndef == [t |-> "undef", v |-> <<>>]
JStr(s) == [t |-> "str", v |-> s]
JNum == [t |-> "num", v |-> <<"7">>]

Envs ==
  [OPENAI_API_KEY : {"", "sk-test"},
   LEAD_WEBHOOK_URL : {"", "https://hooks.example/lead"},
   NEXT_PUBLIC_CALENDLY_LINK : {<<>>, CALURL},
   ALLOWED_ORIGIN : {"", "https://app.example"}]

\* z.enum(["system","user","assistant"])
Roles == <<"system", "user", "assistant">>
RoleSet == {Roles[i] : i \in 1..Len(Roles)}

\* n well-formed messages with distinct contents, roles cycling from `off`
MkMessages(n, off) ==
  [i \in 1..n |-> [role |-> Roles[((i + off) % 3) + 1],
                   content |-> JStr(<<"m", ToString(i)>>)]]

\* a history of n messages whose p-th entry is replaced by `bad`
WithBad(n, p, bad) == [MkMessages(n, 1) EXCEPT ![p] = bad]

BadEntries ==
  {[role |-> "admin", content |-> JStr(<<"x">>)],
   [role |-> "OPENAI_API_KEY", content |-> JStr(<<"x">>)],
   [role |-> "user", content |-> JNum]}

MessageLists ==
  {MkMessages(n, off) : n \in 0..MaxMsgs, off \in {1, 2}}
  \cup {WithBad(n, p, bad) : n \in {1, MaxMsgs - 1}, p \in {1}, bad \in BadEntries}
  \cup {WithBad(MaxMsgs - 1, MaxMsgs - 1, bad) : bad \in BadEntries}

MessagesFields ==
  {[t |-> "undef", items |-> <<>>], [t |-> "num", items |-> <<>>]}
  \cup {[t |-> "array", items |-> l] : l \in MessageLists}

LeadFields ==
  {[t |-> "undef", email |-> JUndef],
   [t |-> "object", email |-> JUndef],
   [t |-> "object", email |-> JStr(<<>>)],
   [t |-> "object", email |-> JStr(TxtEmail)],
   [t |-> "object", email |-> JNum]}

NoBody == [kind |-> "none", raw |-> "", messages |-> [t |-> "undef", items |-> <<>>],
           lead |-> [t |-> "undef", email |-> JUndef]]

Bodies ==
  {[NoBody EXCEPT !.kind = "raw", !.raw = r] : r \in {"{oops", "OPENAI_API_KEY"}}
  \cup {[NoBody EXCEPT !.kind = "json", !.messages = m, !.lead = l] :
          m \in MessagesFields, l \in LeadFields}

Origins == {"", "https://app.example", "https://evil.example"}

Requests ==
  {[method |-> m, origin |-> o, body |-> NoBody] : m \in {"OPTIONS", "GET"}, o \in Origins}
  \cup {[method |-> "POST", origin |-> o, body |-> b] : o \in Origins, b \in Bodies}

NoResp == [status |-> 0, body |-> [kind |-> "none", text |-> <<>>],
           headers |-> [acao |-> "", methods |-> "", allowHeaders |-> ""]]

NoCompletion == [kind |-> "none", content |-> JUndef, message |-> <<>>]

----------------------------------------------------------------------------
(* Request handler: module-level constants and helpers *)

\* const ORIGIN = process.env.ALLOWED_ORIGIN || "https://www.martiviconsulting.com"
ORIGIN ==
  IF env.ALLOWED_ORIGIN = "" THEN "https://www.martiviconsulting.com"
  ELSE env.ALLOWED_ORIGIN

CORS ==
  [acao |-> ORIGIN, methods |-> "POST, OPTIONS, GET", allowHeaders |-> "Content-Type"]

\* const CALENDLY = process.env.NEXT_PUBLIC_CALENDLY_LINK || "#"
CALENDLY ==
  IF env.NEXT_PUBLIC_CALENDLY_LINK = <<>> THEN <<"#">>
  ELSE env.NEXT_PUBLIC_CALENDLY_LINK

SYSTEM_PROMPT ==
  <<"You are MARTIVI CONSULTING's assistant. Goals: ... free 20-min discovery call (">>
  \o CALENDLY \o <<"), or leave contacts. ... Tone: warm, expert, practical.">>

\* BodySchema accepts the body
SchemaOK(b) ==
  /\ b.messages.t \in {"undef", "array"}
  /\ \A i \in 1..Len(b.messages.items) :
       /\ b.messages.items[i].role \in RoleSet
       /\ b.messages.items[i].content.t = "str"
  /\ b.lead.t \in {"undef", "object"}
  /\ b.lead.email.t \in {"undef", "str"}

\* the `messages` BodySchema.parse returns: .default([]) when the field is absent
ParsedMessages(b) ==
  [i \in 1..Len(b.messages.items) |->
     [role |-> b.messages.items[i].role, content |-> b.messages.items[i].content.v]]

\* message of the SyntaxError req.json() throws.  Whether the engine quotes
\* the offending source text in it depends on the runtime: `echo`.
JsonErrorMessage(b, echo) ==
  <<"Unexpected token">> \o (IF echo THEN <<b.raw>> ELSE <<>>)
  \o <<" is not valid JSON">>

\* message of the ZodError BodySchema.parse throws.  Whether an enum issue
\* carries the received value depends on the library version: `echo`.
ZodErrorMessage(b, echo) ==
  LET bad == SelectSeq(b.messages.items, LAMBDA m : m.role \notin RoleSet)
  IN <<"Invalid input">>
     \o (IF echo THEN [i \in 1..Len(bad) |-> bad[i].role] ELSE <<>>)

\* getOpenAI: throws when the key is missing
GetOpenAIThrows == env.OPENAI_API_KEY = ""

\* a window taken from the wrong end: slice(0, 12)
Trimmed_FirstTwelve(msgs) ==
  SubSeq(msgs, 1, IF Len(msgs) < WINDOW THEN Len(msgs) ELSE WINDOW)

\* (messages ?? []).slice(-12)
Trimmed(msgs) == Slice(msgs, 0 - WINDOW)

\* the `messages` argument of client.chat.completions.create
ProviderMessages(msgs) ==
  <<[role |-> "system", content |-> SYSTEM_PROMPT]>> \o Trimmed(msgs)

\* (completion.choices[0]?.message?.content ?? "").replace("[#]", CALENDLY)
ReplyText(content) ==
  ReplaceFirst(IF content.t = "str" THEN content.v ELSE <<>>, PLACEHOLDER, CALENDLY)

\* lead detection that forgets the supplied lead
MaybeLead_ReplyOnly(t, lead) == EmailTest(t)

\* regex.test(text) || (lead && lead.email)
MaybeLead(t, lead) ==
  EmailTest(t) \/ (lead.t = "object" /\ lead.email.t = "str" /\ lead.email.v # <<>>)

\* { source, lead: lead || {}, rawReply: text, when }
WebhookPayload(t, lead) ==
  [source |-> "chatbot",
   lead |-> IF lead.t = "object" THEN lead ELSE [t |-> "object", email |-> JUndef],
   rawReply |-> t]

\* String(msg).includes("OPENAI_API_KEY") ? 500 : 400
ErrorStatus(msg) == IF Includes(msg, "OPENAI_API_KEY") THEN 500 ELSE 400

\* an error response built without the CORS headers
ErrorResponse_NoCors(msg) ==
  [status |-> ErrorStatus(msg), body |-> [kind |-> "error", text |-> msg],
   headers |-> [acao |-> "", methods |-> "", allowHeaders |-> ""]]

\* the outer catch of POST
ErrorResponse(msg) ==
  [status |-> ErrorStatus(msg), body |-> [kind |-> "error", text |-> msg],
   headers |-> CORS]

\* NextResponse.json({ reply: text }, { headers: CORS })
ReplyResponse(t) ==
  [status |-> 200, body |-> [kind |-> "reply", text |-> t], headers |-> CORS]

----------------------------------------------------------------------------
(* Request handler: actions *)

WidgetIdle ==
  /\ messages = <<>>
  /\ input = <<>>
  /\ loading = FALSE
  /\ calls = <<>>
  /\ requests = <<>>
  /\ wlog = <<>>

Init ==
  /\ env \in Envs
  /\ req \in Requests
  /\ pc = "start"
  /\ providerCalls = <<>>
  /\ completion = NoCompletion
  /\ text = <<>>
  /\ webhookCalls = <<>>
  /\ log = <<>>
  /\ resp = NoResp
  /\ WidgetIdle

OPTIONS ==
  /\ pc = "start"
  /\ req.method = "OPTIONS"
  /\ resp' = [status |-> 204, body |-> [kind |-> "none", text |-> <<>>], headers |-> CORS]
  /\ pc' = "done"
  /\ UNCHANGED <<env, req, providerCalls, completion, text, webhookCalls, log>>
  /\ UNCHANGED wvars

GET ==
  /\ pc = "start"
  /\ req.method = "GET"
  /\ resp' = [status |-> 200, body |-> [kind |-> "ok", text |-> <<>>], headers |-> CORS]
  /\ pc' = "done"
  /\ UNCHANGED <<env, req, providerCalls, completion, text, webhookCalls, log>>
  /\ UNCHANGED wvars

\* POST up to its first outcome: req.json(), BodySchema.parse, getOpenAI,
\* slice, and the provider call being issued
POST ==
  /\ pc = "start"
  /\ req.method = "POST"
  /\ \E echo \in BOOLEAN :
       IF req.body.kind = "raw" THEN
         /\ resp' = ErrorResponse(JsonErrorMessage(req.body, echo))
         /\ pc' = "done"
         /\ UNCHANGED providerCalls
       ELSE IF ~SchemaOK(req.body) THEN
         /\ resp' = ErrorResponse(ZodErrorMessage(req.body, echo))
         /\ pc' = "done"
         /\ UNCHANGED providerCalls
       ELSE IF GetOpenAIThrows THEN
         /\ resp' = ErrorResponse(<<"OPENAI_API_KEY", " missing">>)
         /\ pc' = "done"
         /\ UNCHANGED providerCalls
       ELSE
         /\ providerCalls' =
              Append(providerCalls,
                     [model |-> "gpt-4o-mini",
                      messages |-> ProviderMessages(ParsedMessages(req.body))])
         /\ pc' = "awaitCompletion"
         /\ UNCHANGED resp
  /\ UNCHANGED <<env, req, completion, text, webhookCalls, log>>
  /\ UNCHANGED wvars

\* contents the provider may answer: null or a text
Contents == {JUndef} \cup {JStr(t) : t \in ReplyTexts}

\* the provider call resolves: text, lead detection, and the webhook call issued
CompletionResolves ==
  /\ pc = "awaitCompletion"
  /\ \E c \in Contents :
       /\ completion' = [kind |-> "ok", content |-> c, message |-> <<>>]
       /\ text' = ReplyText(c)
       /\ IF MaybeLead(ReplyText(c), req.body.lead) /\ env.LEAD_WEBHOOK_URL # ""
          THEN /\ webhookCalls' =
                    Append(webhookCalls, WebhookPayload(ReplyText(c), req.body.lead))
               /\ pc' = "awaitWebhook"
               /\ UNCHANGED resp
          ELSE /\ resp' = ReplyResponse(ReplyText(c))
               /\ pc' = "done"
               /\ UNCHANGED webhookCalls
  /\ UNCHANGED <<env, req, providerCalls, log>>
  /\ UNCHANGED wvars

ProviderErrors == {<<"Connection error.">>, <<"429 Rate limit reached">>}

\* the provider call rejects: the outer catch answers
CompletionRejects ==
  /\ pc = "awaitCompletion"
  /\ \E m \in ProviderErrors :
       /\ completion' = [kind |-> "error", content |-> JUndef, message |-> m]
       /\ resp' = ErrorResponse(m)
  /\ pc' = "done"
  /\ UNCHANGED <<env, req, providerCalls, text, webhookCalls, log>>
  /\ UNCHANGED wvars

\* fetch(webhook) resolves
WebhookResolves ==
  /\ pc = "awaitWebhook"
  /\ resp' = ReplyResponse(text)
  /\ pc' = "done"
  /\ UNCHANGED <<env, req, providerCalls, completion, text, webhookCalls, log>>
  /\ UNCHANGED wvars

\* a webhook failure that escapes to the outer catch
WebhookRejects_Rethrown ==
  /\ pc = "awaitWebhook"
  /\ resp' = ErrorResponse(<<"fetch failed">>)
  /\ pc' = "done"
  /\ UNCHANGED <<env, req, providerCalls, completion, text, webhookCalls, log>>
  /\ UNCHANGED wvars

\* fetch(webhook) rejects: the inner catch logs and the handler goes on
WebhookRejects ==
  /\ pc = "awaitWebhook"
  /\ log' = Append(log, "Lead webhook error:")
  /\ resp' = ReplyResponse(text)
  /\ pc' = "done"
  /\ UNCHANGED <<env, req, providerCalls, completion, text, webhookCalls>>
  /\ UNCHANGED wvars

Next ==
  \/ OPTIONS
  \/ GET
  \/ POST
  \/ CompletionResolves
  \/ CompletionRejects
  \/ WebhookResolves
  \/ WebhookRejects

Spec == Init /\ [][Next]_vars

----------------------------------------------------------------------------
(* Chat widget: the reply filter of sendMessage *)

\* where a match of /https?:\/\/calendly\.com/i starting at i ends (the index
\* after it), 0 when there is none
UrlEnd(t, i) ==
  LET withS == HTTPS \o CALDOM
      noS == <<"h","t","t","p",":","/","/">> \o CALDOM
      at(p) == /\ i >= 1
               /\ i + Len(p) - 1 <= Len(t)
               /\ LowerSeq(SubSeq(t, i, i + Len(p) - 1)) = p
  IN IF at(withS) THEN i + Len(withS)
     ELSE IF at(noS) THEN i + Len(noS)
     ELSE 0

\* [^\)]* : the first index >= i holding ")", Len(t) + 1 when none
FirstParen(t, i) ==
  Min({k \in i..Len(t) : t[k] = ")"} \cup {Len(t) + 1})

\* [^\s)]+ : the first index >= i holding white space or ")", Len(t) + 1 when none
FirstSpaceOrParen(t, i) ==
  Min({k \in i..Len(t) : IsSpace(t[k]) \/ t[k] = ")"} \cup {Len(t) + 1})

\* where a match of /\[.*?\]\(https?:\/\/calendly\.com[^\)]*\)/i starting at i
\* ends (the index after it), 0 when there is none
MarkdownEnd(t, i) ==
  LET closes == {j \in (i+1)..(Len(t)-1) :
                   /\ \A k \in (i+1)..(j-1) : t[k] \notin {"\n", "\r"}
                   /\ t[j] = "]"
                   /\ t[j+1] = "("
                   /\ UrlEnd(t, j + 2) # 0
                   /\ FirstParen(t, UrlEnd(t, j + 2)) <= Len(t)}
  IN IF i > Len(t) \/ t[i] # "[" \/ closes = {} THEN 0
     ELSE FirstParen(t, UrlEnd(t, Min(closes) + 2)) + 1

RECURSIVE StripMarkdownFrom(_, _)
StripMarkdownFrom(t, i) ==
  IF i > Len(t) THEN <<>>
  ELSE IF MarkdownEnd(t, i) # 0 THEN StripMarkdownFrom(t, MarkdownEnd(t, i))
  ELSE <<t[i]>> \o StripMarkdownFrom(t, i + 1)

\* .replace(/\[.*?\]\(https?:\/\/calendly\.com[^\)]*\)/gi, "")
StripMarkdown(t) == StripMarkdownFrom(t, 1)

\* where a match of /https?:\/\/calendly\.com[^\s)]+/i starting at i ends, 0 when none
BareEnd(t, i) ==
  LET e == UrlEnd(t, i)
      stop == FirstSpaceOrParen(t, e)
  IN IF e = 0 \/ stop = e THEN 0 ELSE stop

RECURSIVE StripBareFrom(_, _)
StripBareFrom(t, i) ==
  IF i > Len(t) THEN <<>>
  ELSE IF BareEnd(t, i) # 0 THEN StripBareFrom(t, BareEnd(t, i))
  ELSE <<t[i]>> \o StripBareFrom(t, i + 1)

\* .replace(/https?:\/\/calendly\.com[^\s)]+/gi, "")
StripBare(t) == StripBareFrom(t, 1)

\* String.prototype.trim
Trim(t) ==
  LET keep == {k \in 1..Len(t) : ~IsSpace(t[k])}
  IN IF keep = {} THEN <<>>
     ELSE SubSeq(t, Min(keep), CHOOSE k \in keep : \A m \in keep : m <= k)

\* rawReply -> cleanedReply
CleanReply(data) ==
  Trim(StripBare(StripMarkdown(IF data.kind = "reply" THEN data.text ELSE <<>>)))

----------------------------------------------------------------------------
(* Chat widget: state and actions *)

\* what the user types
Drafts == {<<" ">>, <<"a">>, <<" ","b">>}

\* JSON bodies the handler answers with: { reply } or { error }
ResponseData ==
  {[kind |-> "reply", text |-> t] : t \in {TxtMarkdown}}
  \cup {[kind |-> "error", text |-> <<"Invalid input">>]}

WidgetInit ==
  /\ env = [OPENAI_API_KEY |-> "", LEAD_WEBHOOK_URL |-> "",
            NEXT_PUBLIC_CALENDLY_LINK |-> <<>>, ALLOWED_ORIGIN |-> ""]
  /\ req = [method |-> "NONE", origin |-> "", body |-> NoBody]
  /\ pc = "off"
  /\ providerCalls = <<>>
  /\ completion = NoCompletion
  /\ text = <<>>
  /\ webhookCalls = <<>>
  /\ log = <<>>
  /\ resp = NoResp
  /\ WidgetIdle

\* onChange={(e) => setInput(e.target.value)}; typing is followed while sends remain
OnChange ==
  /\ Len(calls) < MaxSends
  /\ \E d \in Drafts : input' = d
  /\ UNCHANGED <<messages, loading, calls, requests, wlog>>
  /\ UNCHANGED hvars

\* sendMessage up to its first await: the fetch is issued.  The call is that of
\* the latest render, so `messages` and `input` are the current state; what it
\* keeps across the await is its own newMessages.
SendMessage(via) ==
  /\ Len(calls) < MaxSends
  /\ IF Trim(input) = <<>> THEN
       /\ calls' = Append(calls, [via |-> via, pc |-> "returned",
                                  newMessages |-> <<>>, outcome |-> "none"])
       /\ UNCHANGED <<messages, input, loading, requests>>
     ELSE
       LET newMessages == Append(messages, [role |-> "user", content |-> input])
       IN /\ messages' = newMessages
          /\ input' = <<>>
          /\ loading' = TRUE
          /\ requests' = Append(requests, [messages |-> newMessages])
          /\ calls' = Append(calls, [via |-> via, pc |-> "fetch",
                                     newMessages |-> newMessages,
                                     outcome |-> "pending"])
  /\ UNCHANGED wlog
  /\ UNCHANGED hvars

\* onKeyDown={(e) => e.key === "Enter" && sendMessage()}
OnKeyDownEnter == SendMessage("Enter")

\* <button onClick={sendMessage} disabled={loading}>
OnClickSend ==
  /\ ~loading
  /\ SendMessage("click")

\* fetch resolves: res.json() is awaited next
FetchResolves(i) ==
  /\ i \in 1..Len(calls)
  /\ calls[i].pc = "fetch"
  /\ calls' = [calls EXCEPT ![i].pc = "json"]
  /\ UNCHANGED <<messages, input, loading, requests, wlog>>
  /\ UNCHANGED hvars

\* a catch path that never reaches setLoading(false)
FetchRejects_NoFinally(i) ==
  /\ i \in 1..Len(calls)
  /\ calls[i].pc = "fetch"
  /\ wlog' = Append(wlog, "fetch failed")
  /\ calls' = [calls EXCEPT ![i].pc = "done", ![i].outcome = "rejected"]
  /\ UNCHANGED <<messages, input, loading, requests>>
  /\ UNCHANGED hvars

\* fetch rejects: catch logs, finally clears the flag
FetchRejects(i) ==
  /\ i \in 1..Len(calls)
  /\ calls[i].pc = "fetch"
  /\ wlog' = Append(wlog, "fetch failed")
  /\ loading' = FALSE
  /\ calls' = [calls EXCEPT ![i].pc = "done", ![i].outcome = "rejected"]
  /\ UNCHANGED <<messages, input, requests>>
  /\ UNCHANGED hvars

\* res.json() resolves: the reply is cleaned and appended to the call's own
\* newMessages; finally clears the flag
JsonResolves(i) ==
  /\ i \in 1..Len(calls)
  /\ calls[i].pc = "json"
  /\ \E data \in ResponseData :
       /\ messages' = Append(calls[i].newMessages,
                             [role |-> "assistant", content |-> CleanReply(data)])
       /\ calls' = [calls EXCEPT ![i].pc = "done",
                                 ![i].outcome = IF data.kind = "reply" THEN "reply"
                                                ELSE "errorBody"]
  /\ loading' = FALSE
  /\ UNCHANGED <<input, requests, wlog>>
  /\ UNCHANGED hvars

\* res.json() rejects (the body is not JSON): catch logs, finally clears the flag
JsonRejects(i) ==
  /\ i \in 1..Len(calls)
  /\ calls[i].pc = "json"
  /\ wlog' = Append(wlog, "body is not JSON")
  /\ loading' = FALSE
  /\ calls' = [calls EXCEPT ![i].pc = "done", ![i].outcome = "unparsable"]
  /\ UNCHANGED <<messages, input, requests>>
  /\ UNCHANGED hvars

WidgetNext ==
  \/ OnChange
  \/ OnKeyDownEnter
  \/ OnClickSend
  \/ \E i \in 1..MaxSends : FetchResolves(i)
  \/ \E i \in 1..MaxSends : FetchRejects(i)
  \/ \E i \in 1..MaxSends : JsonResolves(i)
  \/ \E i \in 1..MaxSends : JsonRejects(i)

WidgetSpec == WidgetInit /\ [][WidgetNext]_vars

\* every network call settles: the fetch, then the reading of its body
WidgetFairSpec ==
  /\ WidgetSpec
  /\ \A i \in 1..MaxSends :
       /\ WF_vars(FetchResolves(i) \/ FetchRejects(i))
       /\ WF_vars(JsonResolves(i) \/ JsonRejects(i))

----------------------------------------------------------------------------
(* Properties of the request handler, checked under Spec *)

ValidPayload == req.body.kind = "json" /\ SchemaOK(req.body)

LeadHasEmail ==
  req.body.lead.t = "object" /\ req.body.lead.email.t = "str"
  /\ req.body.lead.email.v # <<>>

\* C1: for a POST with a valid payload and the credential present, the one
\* provider call carries the system prompt followed by the last min(n, 12)
\* payload messages, in their order.
C1_Window ==
  (req.method = "POST" /\ ValidPayload /\ env.OPENAI_API_KEY # "" /\ pc # "start") =>
    LET sent == req.body.messages.items
        n == Len(sent)
        k == IF n <= 12 THEN n ELSE 12
    IN /\ Len(providerCalls) = 1
       /\ Len(providerCalls[1].messages) = k + 1
       /\ providerCalls[1].messages[1] = [role |-> "system", content |-> SYSTEM_PROMPT]
       /\ \A j \in 1..k :
            providerCalls[1].messages[1 + j] =
              [role |-> sent[n - k + j].role, content |-> sent[n - k + j].content.v]

\* a history longer than the window was forwarded, its first messages dropped
C1_Witness ==
  /\ pc = "done"
  /\ Len(req.body.messages.items) > 12
  /\ Len(providerCalls) = 1
  /\ Len(providerCalls[1].messages) = 13
  /\ providerCalls[1].messages[13].content
       = req.body.messages.items[Len(req.body.messages.items)].content.v

\* C2: a POST whose payload fails validation is answered 400 {error}, with
\* no provider call and no webhook call, whatever the offending values are.
C2_Invalid400 ==
  (pc = "done" /\ req.method = "POST" /\ ~ValidPayload) =>
    /\ resp.status = 400
    /\ resp.body.kind = "error"
    /\ providerCalls = <<>>
    /\ webhookCalls = <<>>

\* C3 (its last clause): a POST is answered 500 only when the provider
\* credential is absent.
C3_Only500WithoutCredential ==
  (pc = "done" /\ req.method = "POST" /\ resp.status = 500) =>
    env.OPENAI_API_KEY = ""

\* C4: after a successful provider call exactly one webhook call is attempted
\* when a target is configured and lead detection fires on the reply or on
\* the supplied lead's e-mail, none otherwise; never more than one.
C4_WebhookAtMostOnce ==
  /\ Len(webhookCalls) <= 1
  /\ (pc = "done" /\ completion.kind = "ok") =>
       Len(webhookCalls) =
         IF env.LEAD_WEBHOOK_URL # "" /\ (EmailTest(resp.body.text) \/ LeadHasEmail)
         THEN 1 ELSE 0

\* the supplied lead alone made the handler call the webhook once
C4_Witness ==
  /\ pc = "done"
  /\ completion.kind = "ok"
  /\ ~EmailTest(resp.body.text)
  /\ LeadHasEmail
  /\ Len(webhookCalls) = 1

\* C5: once the webhook call was attempted the response is 200 with the
\* reply text, whether the call succeeded or failed.
C5_WebhookOutcomeIgnored ==
  (pc = "done" /\ webhookCalls # <<>>) =>
    /\ resp.status = 200
    /\ resp.body = [kind |-> "reply", text |-> webhookCalls[1].rawReply]

\* the webhook call failed and the request was answered
C5_Witness ==
  /\ pc = "done"
  /\ webhookCalls # <<>>
  /\ log # <<>>
  /\ resp.status = 200

\* C6: the reply of a successful POST holds no occurrence of the scheduling
\* domain, in any letter case.
C6_NoSchedulingDomain ==
  (pc = "done" /\ req.method = "POST" /\ resp.status = 200) =>
    IndexOf(LowerSeq(resp.body.text), CALDOM) = 0

----------------------------------------------------------------------------
(* Properties of the widget, checked under WidgetSpec and WidgetFairSpec *)

IsPrefix(s, t) == Len(s) <= Len(t) /\ SubSeq(t, 1, Len(s)) = s

\* C8: the message list only grows at its end, also when a second
\* sendMessage starts while the first is in flight.
C8_AppendOnly == [][IsPrefix(messages, messages')]_vars

\* C9: a call with non-blank input raises the loading flag as it issues the
\* request, and the flag is lowered when the call ends, which it does once
\* the network settles; a call with blank input changes nothing.
C9_LoadingFlag ==
  /\ [][(Len(calls') > Len(calls) /\ Trim(input) # <<>>) =>
          (Len(requests') = Len(requests) + 1 /\ loading' = TRUE)]_vars
  /\ [][Len(requests') > Len(requests) => loading' = TRUE]_vars
  /\ [][(Len(calls') > Len(calls) /\ Trim(input) = <<>>) =>
          UNCHANGED <<messages, input, loading, requests, wlog>>]_vars
  /\ [][\A i \in 1..Len(calls) :
          (calls[i].pc # "done" /\ calls'[i].pc = "done") => loading' = FALSE]_vars
  /\ \A i \in 1..MaxSends :
       (Len(calls) >= i /\ calls[i].pc = "fetch")
         ~> (Len(calls) >= i /\ calls[i].pc = "done")

\* a blank call was ignored, and a failed call left the flag lowered
C9_Witness ==
  /\ \E i \in 1..Len(calls) : calls[i].pc = "returned"
  /\ \E i \in 1..Len(calls) : calls[i].pc = "done" /\ calls[i].outcome # "reply"
  /\ ~loading

\* C10: after a failed send, alone in flight, the list is the list before
\* the send plus the user's message.
C10_FailedSendAddsNothing ==
  \A i \in 1..Len(calls) :
    (/\ Len(requests) = 1
     /\ calls[i].pc = "done"
     /\ calls[i].outcome \in {"rejected", "unparsable", "errorBody"}) =>
      messages = calls[i].newMessages

====
